---- MODULE Spec2Model ----
(***************************************************************************)
(* Task lifecycle and permission enforcement of the TODO management        *)
(* server: TasksService (createTask, update, remove, deleteTaskAsManager)  *)
(* over the task and user stores, the counter events it hands to the       *)
(* dashboard gateway, AuthService.adminUpdateUser, which changes the       *)
(* roles the task rules read, and DashboardGateway, which registers the    *)
(* socket connections the events are delivered to.                         *)
(***************************************************************************)
EXTENDS Integers, Sequences, FiniteSets, TLC

\* ------------------------------------------------------------------ bounds
MaxTasks == 1
MaxPayloadFields == 2
MaxUserUpdates == 1
MaxConnections == 2

\* ------------------------------------------------------------------ values
Absent == "absent"
Null == "null"

UserRole == {"ADMIN", "MANAGER", "MEMBER"}
TaskStatus == {"TODO", "IN_PROGRESS", "REVIEW", "COMPLETED", "CANCELLED"}
TaskPriority == {"LOW", "MEDIUM", "HIGH"}
TaskAction == {"TASK_CREATED", "TASK_HIGH_PRIORITY", "TASK_DUE_DATE",
               "TASK_COMPLETED", "TASK_IN_PROGRESS"}

\* Stored users at start-up and one id that names no stored user.
UserIds == {"a1", "m1", "m2", "u1", "u2"}
GhostId == "x0"
ActorIds == UserIds \cup {GhostId}
InitialRole == [a1 |-> "ADMIN", m1 |-> "MANAGER", m2 |-> "MANAGER",
                u1 |-> "MEMBER", u2 |-> "MEMBER"]

TaskIds == 1 .. MaxTasks
Dates == {"D1"}
\* Ids a payload may name as assignee: two members, a manager, no stored user.
AssigneeInputs == {"u1", "u2", "m2", GhostId}
PriorityInputs == {"HIGH"}

VARIABLES users, tasks, nextId, last, userUpdates,
          connectedClients, sockets, wire, serverClosing,
          inflight, sums, begun

vars == <<users, tasks, nextId, last, userUpdates,
          connectedClients, sockets, wire, serverClosing,
          inflight, sums, begun>>
gateway == <<connectedClients, sockets, wire, serverClosing>>
\* The update calls that have read and not yet written, the running sums of
\* the counter deltas each manager room was sent, the update calls begun.
overlap == <<inflight, sums, begun>>

\* ------------------------------------------------------------------ stores
\* userModel.findById: the stored user, or NoUser.
NoUser == [role |-> "NONE"]
findUser(id) == IF id \in DOMAIN users THEN users[id] ELSE NoUser

\* taskModel.findById
hasTask(id) == id \in DOMAIN tasks

\* ------------------------------------------------------------------ DTOs
CreateFields == {"priority", "dueDate", "assignedTo", "isPersonal"}
CreateTaskDto == [title : {"T1"},
                  description : {Absent},
                  priority : {Absent} \cup PriorityInputs,
                  dueDate : {Absent} \cup Dates,
                  assignedTo : {Absent} \cup AssigneeInputs,
                  isPersonal : {Absent, "true", "false"}]

UpdateFields == {"title", "description", "status", "priority", "dueDate", "assignedTo"}
presentFields(dto) == {f \in UpdateFields : dto[f] # Absent}
UpdateTaskDto ==
  {d \in [title : {Absent, "T2"},
          description : {Absent, "D1"},
          status : {Absent} \cup TaskStatus,
          priority : {Absent} \cup PriorityInputs,
          dueDate : {Absent, Null} \cup Dates,
          assignedTo : {Absent} \cup AssigneeInputs] :
     Cardinality(presentFields(d)) <= MaxPayloadFields}

\* ------------------------------------------------------------------ events
\* DashboardGateway.emitTaskEvent(managerId, action, isIncrement): one counter
\* delta addressed to the manager's room.
managerRoom(managerId) == <<"manager", managerId>>
emitTaskEvent(managerId, action, isIncrement) ==
  [room |-> managerRoom(managerId), action |-> action, inc |-> isIncrement]

\* handleConnection: the rooms a connection of this user is joined to.
joinedRooms(userId, role) == {<<"role", role>>, <<"user", userId>>}

\* The events of a sequence of conditional emits: <<condition, event>> pairs.
RECURSIVE emitAll(_)
emitAll(steps) ==
  IF steps = <<>> THEN <<>>
  ELSE (IF steps[1][1] THEN <<steps[1][2]>> ELSE <<>>) \o emitAll(Tail(steps))

\* ------------------------------------------------------------------ outcomes
Ok == [kind |-> "ok"]
NotFound(what) == [kind |-> "NotFound", msg |-> what]
Forbidden(what) == [kind |-> "Forbidden", msg |-> what]
BadRequest(what) == [kind |-> "BadRequest", msg |-> what]
InternalError(what) == [kind |-> "InternalError", msg |-> what]

\* A gateway emitter wraps server.emit in try and catch: what the socket
\* server throws is logged and does not reach the emitter's caller.
emitterThrows_uncaught(serverThrows) == serverThrows
emitterThrows(serverThrows) == FALSE

\* The outcome of a handler once the emits it awaits have returned.
afterEmits(events) ==
  IF events # <<>> /\ emitterThrows(serverClosing)
    THEN InternalError("emit failed") ELSE Ok

\* last: the call just handled and its outcome, until the caller has it.
\* before is the task store as the call found it.
NoOp == [op |-> "none", actor |-> Absent, id |-> 0, dto |-> Absent,
         result |-> Ok, emitted |-> <<>>, before |-> <<>>]
idle == last.op = "none"

\* ------------------------------------------------------------------ createTask
\* "Verify assigned user is a member"
assigneeIsMember_stored(assignedUser) == assignedUser # NoUser
assigneeIsMember(assignedUser) == assignedUser # NoUser /\ assignedUser.role = "MEMBER"

createTaskOutcome(dto, userId) ==
  LET user == findUser(userId)
      assignedUser == findUser(dto.assignedTo)
  IN IF user = NoUser THEN NotFound("User not found")
     ELSE IF dto.isPersonal = "true"
       THEN IF user.role # "MEMBER"
              THEN Forbidden("Only members can create personal tasks")
              ELSE Ok
       ELSE IF user.role # "MANAGER"
              THEN Forbidden("Only managers can create project tasks")
            ELSE IF dto.assignedTo = Absent
              THEN BadRequest("tasks must be assigned to a member")
            ELSE IF ~assigneeIsMember(assignedUser)
              THEN BadRequest("Can only assign tasks to members")
            ELSE Ok

createTaskData(dto, userId) ==
  [title |-> dto.title,
   description |-> dto.description,
   status |-> "TODO",
   priority |-> IF dto.priority = Absent THEN "MEDIUM" ELSE dto.priority,
   dueDate |-> IF dto.dueDate = Absent THEN Null ELSE dto.dueDate,
   assignedTo |-> IF dto.isPersonal = "true" THEN userId ELSE dto.assignedTo,
   assignedBy |-> userId,
   isPersonal |-> (dto.isPersonal = "true"),
   createdBy |-> userId,
   statusHistory |-> <<>>,
   priorityHistory |-> <<>>,
   assignmentHistory |-> <<>>,
   dueDateHistory |-> <<>>]

createTaskEvents(task, userId) ==
  IF task.isPersonal THEN <<>>
  ELSE emitAll(<<
    <<TRUE, emitTaskEvent(userId, "TASK_CREATED", TRUE)>>,
    <<task.priority = "HIGH", emitTaskEvent(userId, "TASK_HIGH_PRIORITY", TRUE)>>,
    <<task.dueDate # Null, emitTaskEvent(userId, "TASK_DUE_DATE", TRUE)>>,
    <<task.status = "COMPLETED", emitTaskEvent(userId, "TASK_COMPLETED", TRUE)>>,
    <<task.status = "IN_PROGRESS", emitTaskEvent(userId, "TASK_IN_PROGRESS", TRUE)>> >>)

createTask(dto, userId) ==
  LET outcome == createTaskOutcome(dto, userId)
      task == createTaskData(dto, userId)
  IN /\ nextId <= MaxTasks
     /\ IF outcome = Ok
          THEN /\ tasks' = [i \in DOMAIN tasks \cup {nextId} |->
                              IF i = nextId THEN task ELSE tasks[i]]
               /\ nextId' = nextId + 1
               /\ last' = [op |-> "createTask", actor |-> userId, id |-> nextId,
                           dto |-> dto,
                           result |-> afterEmits(createTaskEvents(task, userId)),
                           emitted |-> createTaskEvents(task, userId), before |-> tasks]
          ELSE /\ UNCHANGED <<tasks, nextId>>
               /\ last' = [op |-> "createTask", actor |-> userId, id |-> 0,
                           dto |-> dto, result |-> outcome, emitted |-> <<>>, before |-> tasks]
     /\ UNCHANGED <<users, userUpdates>>

\* ------------------------------------------------------------------ update
validTransitions ==
  [TODO |-> <<"IN_PROGRESS", "CANCELLED">>,
   IN_PROGRESS |-> <<"REVIEW", "CANCELLED", "COMPLETED">>,
   REVIEW |-> <<"COMPLETED", "IN_PROGRESS", "CANCELLED">>,
   COMPLETED |-> <<"IN_PROGRESS", "REVIEW">>,
   CANCELLED |-> <<"TODO", "IN_PROGRESS">>]

includes(list, x) == \E i \in 1 .. Len(list) : list[i] = x

\* The error thrown for a transition outside the table: it carries the current
\* status, the requested one and the list joined into the message.
InvalidTransition_requested(currentStatus, newStatus) ==
  [kind |-> "BadRequest", msg |-> "Invalid status transition",
   from |-> currentStatus, to |-> newStatus,
   validNext |-> validTransitions[newStatus]]
InvalidTransition(currentStatus, newStatus) ==
  [kind |-> "BadRequest", msg |-> "Invalid status transition",
   from |-> currentStatus, to |-> newStatus,
   validNext |-> validTransitions[currentStatus]]

\* validateStatusTransition: Ok, or the error it throws.
validateStatusTransition(currentStatus, newStatus) ==
  IF ~includes(validTransitions[currentStatus], newStatus)
    THEN InvalidTransition(currentStatus, newStatus)
    ELSE Ok

\* The permission block of update (Ok, or the ForbiddenException thrown).
updatePermission(task, user, userId) ==
  IF task.isPersonal
    THEN IF task.createdBy # userId
           THEN Forbidden("Cannot modify personal task of another user")
           ELSE Ok
  ELSE IF user.role = "MEMBER"
    THEN IF task.assignedTo # userId /\ task.createdBy # userId
           THEN Forbidden("Cannot modify project task not assigned to you")
           ELSE Ok
  ELSE IF user.role = "MANAGER"
    THEN IF task.createdBy # userId
           THEN Forbidden("Can only modify tasks you created")
           ELSE Ok
  ELSE Ok

\* The status block of update.
updateStatusCheck_unchecked(task, dto) == Ok
updateStatusCheck(task, dto) ==
  IF dto.status # Absent /\ dto.status # task.status
    THEN validateStatusTransition(task.status, dto.status)
    ELSE Ok

\* The assignment block of update.
updateAssignmentCheck(task, user, dto) ==
  IF dto.assignedTo # Absent /\ ~task.isPersonal /\ user.role = "MANAGER"
    THEN LET assignedUser == findUser(dto.assignedTo)
         IN IF ~assigneeIsMember(assignedUser)
              THEN BadRequest("Can only assign tasks to members")
              ELSE Ok
    ELSE Ok

updateOutcome(id, dto, userId) ==
  LET user == findUser(userId)
  IN IF user = NoUser THEN NotFound("User not found")
     ELSE IF ~hasTask(id) THEN NotFound("Task not found")
     ELSE IF updatePermission(tasks[id], user, userId) # Ok
       THEN updatePermission(tasks[id], user, userId)
     ELSE IF updateStatusCheck(tasks[id], dto) # Ok
       THEN updateStatusCheck(tasks[id], dto)
     ELSE updateAssignmentCheck(tasks[id], user, dto)

\* findByIdAndUpdate(id, updateData): every field the payload carries is written.
applyUpdateData_unsaved(task, dto) == task
applyUpdateData(task, dto) ==
  [f \in DOMAIN task |->
     IF f \in UpdateFields /\ dto[f] # Absent THEN dto[f] ELSE task[f]]

\* The manager id update reads from the updated task: the creator's id, or the
\* empty string when createdBy populates to nothing.
updateManagerId_assignee(updatedTask) == updatedTask.assignedTo
updateManagerId(updatedTask) ==
  IF updatedTask.createdBy \in DOMAIN users THEN updatedTask.createdBy ELSE ""

\* "Emit manager-scoped task counters for project tasks only"
emitsCounters_always(updatedTask) == TRUE
emitsCounters(updatedTask) == ~updatedTask.isPersonal

updateEvents(previous, updatedTask, dto) ==
  LET managerId == updateManagerId(updatedTask)
      hadDueDate == previous.dueDate # Null
      hasDueDateNow == dto.dueDate # Null
      statusChanged == dto.status # Absent /\ dto.status # previous.status
  IN IF ~emitsCounters(updatedTask) THEN <<>>
     ELSE emitAll(<<
       <<dto.dueDate # Absent /\ ~hadDueDate /\ hasDueDateNow,
         emitTaskEvent(managerId, "TASK_DUE_DATE", TRUE)>>,
       <<dto.dueDate # Absent /\ hadDueDate /\ ~hasDueDateNow,
         emitTaskEvent(managerId, "TASK_DUE_DATE", FALSE)>>,
       <<statusChanged /\ dto.status = "COMPLETED",
         emitTaskEvent(managerId, "TASK_COMPLETED", TRUE)>>,
       <<statusChanged /\ dto.status = "COMPLETED" /\ previous.status = "IN_PROGRESS",
         emitTaskEvent(managerId, "TASK_IN_PROGRESS", FALSE)>>,
       <<statusChanged /\ dto.status # "COMPLETED" /\ previous.status = "COMPLETED",
         emitTaskEvent(managerId, "TASK_COMPLETED", FALSE)>>,
       <<statusChanged /\ dto.status = "IN_PROGRESS",
         emitTaskEvent(managerId, "TASK_IN_PROGRESS", TRUE)>>,
       <<statusChanged /\ dto.status # "IN_PROGRESS" /\ previous.status = "IN_PROGRESS",
         emitTaskEvent(managerId, "TASK_IN_PROGRESS", FALSE)>> >>)

update(id, dto, userId) ==
  LET outcome == updateOutcome(id, dto, userId)
  IN /\ IF outcome = Ok
          THEN LET updatedTask == applyUpdateData(tasks[id], dto)
               IN /\ tasks' = [tasks EXCEPT ![id] = updatedTask]
                  /\ last' = [op |-> "update", actor |-> userId, id |-> id,
                              dto |-> dto,
                              result |-> afterEmits(updateEvents(tasks[id], updatedTask, dto)),
                              emitted |-> updateEvents(tasks[id], updatedTask, dto),
                              before |-> tasks]
          ELSE /\ UNCHANGED tasks
               /\ last' = [op |-> "update", actor |-> userId, id |-> id,
                           dto |-> dto, result |-> outcome, emitted |-> <<>>, before |-> tasks]
     /\ UNCHANGED <<users, nextId, userUpdates>>

\* ------------------------------------------------------------------ remove
removePermission(task, user, userId) ==
  IF task.isPersonal
    THEN IF task.createdBy # userId
           THEN Forbidden("Cannot delete personal task of another user")
           ELSE Ok
  ELSE IF user.role = "MEMBER"
    THEN Forbidden("Members cannot delete project tasks")
  ELSE IF user.role = "MANAGER"
    THEN IF task.createdBy # userId
           THEN Forbidden("Can only delete tasks you created")
           ELSE Ok
  ELSE Ok

removeOutcome(id, userId) ==
  LET user == findUser(userId)
  IN IF user = NoUser THEN NotFound("User not found")
     ELSE IF ~hasTask(id) THEN NotFound("Task not found")
     ELSE removePermission(tasks[id], user, userId)

\* findByIdAndDelete
deleteTask(id) == [i \in DOMAIN tasks \ {id} |-> tasks[i]]

remove(id, userId) ==
  LET outcome == removeOutcome(id, userId)
  IN /\ tasks' = IF outcome = Ok THEN deleteTask(id) ELSE tasks
     /\ last' = [op |-> "remove", actor |-> userId, id |-> id, dto |-> Absent,
                 result |-> outcome, emitted |-> <<>>, before |-> tasks]
     /\ UNCHANGED <<users, nextId, userUpdates>>

\* ------------------------------------------------------------------ deleteTaskAsManager
\* The object deleteTaskAsManager returns; it never throws.
Returned(success, error) == [kind |-> "returned", success |-> success, error |-> error]

\* Task ids are ObjectIds; 0 stands for a string that is not one.
InvalidTaskId == 0

deleteTaskAsManagerResult(taskId, userId) ==
  LET user == findUser(userId)
  IN IF taskId = InvalidTaskId THEN Returned(FALSE, "Invalid task ID")
     ELSE IF user = NoUser THEN Returned(FALSE, "User not found")
     ELSE IF user.role # "MANAGER" /\ user.role # "ADMIN"
       THEN Returned(FALSE, "Insufficient permissions")
     ELSE IF ~hasTask(taskId) THEN Returned(FALSE, "Task not found")
     ELSE IF user.role = "MANAGER" /\ tasks[taskId].createdBy # userId
       THEN Returned(FALSE, "Access denied")
     ELSE Returned(TRUE, "")

deleteTaskAsManager(taskId, userId) ==
  LET outcome == deleteTaskAsManagerResult(taskId, userId)
  IN /\ tasks' = IF outcome.success THEN deleteTask(taskId) ELSE tasks
     /\ last' = [op |-> "deleteTaskAsManager", actor |-> userId, id |-> taskId,
                 dto |-> Absent, result |-> outcome, emitted |-> <<>>, before |-> tasks]
     /\ UNCHANGED <<users, nextId, userUpdates>>

\* ------------------------------------------------------------------ findOne
\* The task findOne reads has its user references populated. refIsId tells
\* whether toString() of a populated reference gives the id it refers to, as
\* it does for a plain ObjectId, or a rendering of the document.
populatedEquals(ref, userId, refIsId) == refIsId /\ ref = userId

findOnePermission(task, user, userId, refIsId) ==
  IF task.isPersonal
    THEN IF ~populatedEquals(task.createdBy, userId, refIsId)
           THEN Forbidden("Cannot access personal task of another user")
           ELSE Ok
  ELSE IF user.role = "MEMBER" /\ ~populatedEquals(task.assignedTo, userId, refIsId)
    THEN Forbidden("Cannot access project task not assigned to you")
  ELSE Ok

findOneOutcome(id, userId, refIsId) ==
  LET user == findUser(userId)
  IN IF user = NoUser THEN NotFound("User not found")
     ELSE IF ~hasTask(id) THEN NotFound("Task not found")
     ELSE findOnePermission(tasks[id], user, userId, refIsId)

findOne(id, userId, refIsId) ==
  LET outcome == findOneOutcome(id, userId, refIsId)
  IN /\ last' = [op |-> "findOne", actor |-> userId, id |-> id, dto |-> Absent,
                 result |-> outcome, emitted |-> <<>>, before |-> tasks,
                 returned |-> IF outcome = Ok THEN {id} ELSE {}]
     /\ UNCHANGED <<users, tasks, nextId, userUpdates>>

\* ------------------------------------------------------------------ findAll
\* The query parameters findAll reads. A page or limit that is not sent reads
\* as a falsy value, written 0 here.
MaxPage == 2
QueryTasksDto == [status : {Absent, "TODO"},
                  assignedTo : {Absent, "u1", "u2"},
                  page : 0 .. MaxPage,
                  limit : 0 .. 1]

\* "Only allow assignedTo filter for non-members"
overridesAssignedTo_always(queryDto, user) == queryDto.assignedTo # Absent
overridesAssignedTo(queryDto, user) ==
  queryDto.assignedTo # Absent /\ user.role # "MEMBER"

\* The filter findAll builds, applied to one task.
findAllFilter(task, queryDto, user, userId) ==
  /\ IF overridesAssignedTo(queryDto, user)
       THEN task.assignedTo = queryDto.assignedTo
       ELSE user.role = "MEMBER" => task.assignedTo = userId
  /\ user.role = "MANAGER" => task.createdBy = userId
  /\ queryDto.status # Absent => task.status = queryDto.status

\* skip((page - 1) * limit).limit(limit) over the matching tasks in store order.
paginate(ids, queryDto) ==
  LET page == IF queryDto.page = 0 THEN 1 ELSE queryDto.page
      limit == IF queryDto.limit = 0 THEN 10 ELSE queryDto.limit
      skip == (page - 1) * limit
      position(i) == Cardinality({j \in ids : j < i}) + 1
  IN {i \in ids : position(i) > skip /\ position(i) <= skip + limit}

findAll(queryDto, userId) ==
  LET user == findUser(userId)
      matching == {i \in DOMAIN tasks : findAllFilter(tasks[i], queryDto, user, userId)}
  IN /\ last' = [op |-> "findAll", actor |-> userId, id |-> 0, dto |-> queryDto,
                 result |-> IF user = NoUser THEN NotFound("User not found") ELSE Ok,
                 emitted |-> <<>>, before |-> tasks,
                 returned |-> IF user = NoUser THEN {} ELSE paginate(matching, queryDto)]
     /\ UNCHANGED <<users, tasks, nextId, userUpdates>>

\* ------------------------------------------------------------------ adminUpdateUser
AdminUpdateUserDto == [role : {Absent} \cup UserRole,
                       isActive : {Absent, "true", "false"}]

adminUpdateUserOutcome(userId, dto, currentUser) ==
  LET user == findUser(userId)
  IN IF findUser(currentUser).role # "ADMIN"
       THEN Forbidden("Administrator access required")
     ELSE IF user = NoUser THEN BadRequest("User not found")
     ELSE IF userId = currentUser /\ dto.isActive = "false"
       THEN Forbidden("Self-deactivation not allowed")
     ELSE IF dto.isActive = "false" /\ user.role = "ADMIN"
       THEN Forbidden("Admin deactivation not allowed")
     ELSE IF dto.role # Absent /\ user.role = "ADMIN" /\ dto.role = "MANAGER"
       THEN Forbidden("Role demotion not allowed")
     ELSE IF dto.role # Absent /\ user.role = "MANAGER" /\ dto.role = "MEMBER"
       THEN Forbidden("Role demotion not allowed")
     ELSE Ok

\* findByIdAndUpdate(userId, updateData)
adminUpdateData(user, dto) ==
  [role |-> IF dto.role # Absent THEN dto.role ELSE user.role,
   isActive |-> IF dto.isActive # Absent THEN dto.isActive = "true" ELSE user.isActive]

\* The user counters and activity events it emits go to the global broadcast
\* and are no task events; they are left out of last.emitted.
adminUpdateUser(userId, dto, currentUser) ==
  LET outcome == adminUpdateUserOutcome(userId, dto, currentUser)
  IN /\ userUpdates < MaxUserUpdates
     /\ users' = IF outcome = Ok
                   THEN [users EXCEPT ![userId] = adminUpdateData(users[userId], dto)]
                   ELSE users
     /\ userUpdates' = userUpdates + 1
     /\ last' = [op |-> "adminUpdateUser", actor |-> currentUser, id |-> 0,
                 dto |-> dto, result |-> outcome, emitted |-> <<>>, before |-> tasks,
                 target |-> userId, usersBefore |-> users]
     /\ UNCHANGED <<tasks, nextId>>

\* ------------------------------------------------------------------ inviteUser
\* A stored user's e-mail address stands for the user; NewEmail is not stored
\* at start-up.
NewEmail == "n1"
InviteUserDto == [email : {NewEmail, "u1"}, role : UserRole]

inviteUserOutcome(dto, currentUser) ==
  LET role == findUser(currentUser).role
  IN IF role = "MEMBER"
       THEN Forbidden("Insufficient permissions to invite users")
     ELSE IF role = "MANAGER" /\ dto.role = "MANAGER"
       THEN Forbidden("Managers can only invite members")
     ELSE IF dto.email \in DOMAIN users
       THEN BadRequest("User with this email already exists")
     ELSE Ok

\* EmailService.sendUserInvitation: a failure of transporter.sendMail is
\* logged and thrown again.
sendUserInvitationThrows(sendMailFails) == sendMailFails

\* The new user is saved, the user events are emitted, then the invitation is
\* sent; what the last await throws is what inviteUser throws.
inviteUser(dto, currentUser, sendMailFails) ==
  LET outcome == inviteUserOutcome(dto, currentUser)
      newUser == [role |-> dto.role, isActive |-> TRUE]
  IN /\ userUpdates < MaxUserUpdates
     /\ users' = IF outcome = Ok
                   THEN [u \in DOMAIN users \cup {dto.email} |->
                           IF u = dto.email THEN newUser ELSE users[u]]
                   ELSE users
     /\ userUpdates' = userUpdates + 1
     /\ last' = [op |-> "inviteUser", actor |-> currentUser, id |-> 0, dto |-> dto,
                 result |-> IF outcome # Ok THEN outcome
                            ELSE IF emitterThrows(serverClosing)
                              THEN InternalError("emit failed")
                            ELSE IF sendUserInvitationThrows(sendMailFails)
                              THEN InternalError("sendMail failed")
                            ELSE Ok,
                 emitted |-> <<>>, before |-> tasks,
                 target |-> dto.email, usersBefore |-> users]
     /\ UNCHANGED <<tasks, nextId>>

\* ------------------------------------------------------------------ managerUpdateUser
ManagerUpdateUserDto == [role : {Absent} \cup UserRole,
                         isActive : {Absent, "true", "false"}]

managerUpdateUserOutcome(userId, dto, currentUser) ==
  LET user == findUser(userId)
  IN IF user = NoUser THEN BadRequest("User not found")
     ELSE IF user.role = "ADMIN"
       THEN Forbidden("Managers cannot modify administrator accounts")
     ELSE IF user.role = "MANAGER" /\ userId # currentUser
       THEN Forbidden("Managers cannot modify other manager accounts")
     ELSE IF userId = currentUser /\ dto.isActive = "false"
       THEN Forbidden("Self-deactivation not allowed")
     ELSE IF dto.role # Absent
       THEN Forbidden("Role modification not allowed")
     ELSE Ok

managerUpdateUser(userId, dto, currentUser) ==
  LET outcome == managerUpdateUserOutcome(userId, dto, currentUser)
  IN /\ userUpdates < MaxUserUpdates
     /\ users' = IF outcome = Ok
                   THEN [users EXCEPT ![userId] = adminUpdateData(users[userId], dto)]
                   ELSE users
     /\ userUpdates' = userUpdates + 1
     /\ last' = [op |-> "managerUpdateUser", actor |-> currentUser, id |-> 0,
                 dto |-> dto, result |-> outcome, emitted |-> <<>>, before |-> tasks,
                 target |-> userId, usersBefore |-> users]
     /\ UNCHANGED <<tasks, nextId>>

\* ------------------------------------------------------------------ adminDeleteUser
adminDeleteUserOutcome_any(userId, currentUser) ==
  IF findUser(currentUser).role # "ADMIN" THEN Forbidden("Administrator access required")
  ELSE IF findUser(userId) = NoUser THEN BadRequest("User not found")
  ELSE Ok
adminDeleteUserOutcome(userId, currentUser) ==
  IF findUser(currentUser).role # "ADMIN"
    THEN Forbidden("Administrator access required")
  ELSE IF findUser(userId) = NoUser THEN BadRequest("User not found")
  ELSE IF userId = currentUser THEN Forbidden("Self-deletion not allowed")
  ELSE IF findUser(userId).role = "ADMIN" THEN Forbidden("Admin deletion not allowed")
  ELSE Ok

adminDeleteUser(userId, currentUser) ==
  LET outcome == adminDeleteUserOutcome(userId, currentUser)
  IN /\ userUpdates < MaxUserUpdates
     /\ users' = IF outcome = Ok
                   THEN [u \in DOMAIN users \ {userId} |-> users[u]]
                   ELSE users
     /\ userUpdates' = userUpdates + 1
     /\ last' = [op |-> "adminDeleteUser", actor |-> currentUser, id |-> 0,
                 dto |-> Absent, result |-> outcome, emitted |-> <<>>, before |-> tasks,
                 target |-> userId, usersBefore |-> users]
     /\ UNCHANGED <<tasks, nextId>>

\* ------------------------------------------------------------------ gateway
\* Socket ids, and the credential a handshake may carry: none, or a token
\* with the sub and role claims it was signed with, genuine or not.
ClientIds == 1 .. MaxConnections
TokenSubjects == {"m1", "m2", "u1"}
NoToken == [valid |-> FALSE, sub |-> Absent, role |-> Absent]
Tokens ==
  {NoToken} \cup {[valid |-> v, sub |-> u, role |-> InitialRole[u]] :
                    v \in BOOLEAN, u \in TokenSubjects}

\* A socket before its connection, and the gateway at rest.
NoSocket == [status |-> "none", token |-> NoToken, rooms |-> <<>>]
NoCall == [op |-> "none", client |-> 0, sent |-> <<>>, room |-> <<>>,
           delivered |-> <<>>, before |-> <<>>]
quiet == wire.op = "none"

\* jwtService.verify: the payload of a genuine token; it throws on any other.
jwtVerify_unchecked(token) == [ok |-> TRUE, sub |-> token.sub, role |-> token.role]
jwtVerify(token) ==
  IF token.valid THEN [ok |-> TRUE, sub |-> token.sub, role |-> token.role]
  ELSE [ok |-> FALSE]

\* Socket.join: the socket's rooms are a Set, joining twice adds nothing.
join_again(rooms, room) == Append(rooms, room)
join(rooms, room) == IF includes(rooms, room) THEN rooms ELSE Append(rooms, room)

\* The rooms handleConnection joins, in its order.
connectionRooms(user) == <<<<"role", user.role>>, <<"user", user.id>>>>
RECURSIVE joinAll(_, _)
joinAll(rooms, names) ==
  IF names = <<>> THEN rooms ELSE joinAll(join(rooms, names[1]), Tail(names))

\* Socket.disconnect and a close by the peer: the socket leaves every room
\* and its disconnect event runs handleDisconnect.
closed_open(socket) == socket
closed(socket) == [socket EXCEPT !.status = "closed", !.rooms = <<>>]

\* handleDisconnect: the registry without the client's entry.
unregister_kept(client) == connectedClients
unregister(client) ==
  [c \in DOMAIN connectedClients \ {client} |-> connectedClients[c]]

\* getConnectedClients
getConnectedClients == {[id |-> c, user |-> connectedClients[c]] : c \in DOMAIN connectedClients}

\* How many times an event sent to the room reaches the socket.
RECURSIVE memberships(_, _)
memberships(rooms, room) ==
  IF rooms = <<>> THEN 0
  ELSE (IF rooms[1] = room THEN 1 ELSE 0) + memberships(Tail(rooms), room)

\* server.to(room).emit and server.emit over the sockets as they stand.
toRoom(room) == [c \in ClientIds |-> memberships(sockets[c].rooms, room)]
toAll == [c \in ClientIds |-> IF sockets[c].status = "open" THEN 1 ELSE 0]

\* What an emit delivers and what its emitter does when the server throws.
delivery(recipients) ==
  IF serverClosing THEN [c \in ClientIds |-> 0] ELSE recipients
emitterLog ==
  IF emitterThrows(serverClosing) THEN <<"thrown">>
  ELSE IF serverClosing THEN <<"logged">> ELSE <<>>

gatewayCall(op, client, sent, room, delivered) ==
  [op |-> op, client |-> client, sent |-> sent, room |-> room,
   delivered |-> delivered, before |-> <<connectedClients, sockets>>]

\* handleConnection(client), the handshake carrying token.
handleConnection(client, token) ==
  LET refuse(code) ==
        /\ sockets' = [sockets EXCEPT ![client] = closed([@ EXCEPT !.token = token])]
        /\ connectedClients' = unregister(client)
        /\ wire' = gatewayCall("handleConnection", client, <<"error", code>>, <<>>, <<>>)
  IN IF token = NoToken THEN refuse("AUTH_TOKEN_MISSING")
     ELSE LET payload == jwtVerify(token)
          IN IF ~payload.ok THEN refuse("AUTH_FAILED")
             ELSE LET user == [id |-> payload.sub, role |-> payload.role]
                  IN /\ connectedClients' =
                          [c \in DOMAIN connectedClients \cup {client} |->
                             IF c = client THEN user ELSE connectedClients[c]]
                     /\ sockets' = [sockets EXCEPT ![client] =
                                      [status |-> "open", token |-> token,
                                       rooms |-> joinAll(@.rooms, connectionRooms(user))]]
                     /\ wire' = gatewayCall("handleConnection", client, <<"connected">>, <<>>, <<>>)

\* handleDisconnect(client), run by the close of the socket.
handleDisconnect(client) ==
  /\ sockets' = [sockets EXCEPT ![client] = closed(@)]
  /\ connectedClients' = unregister(client)
  /\ wire' = gatewayCall("handleDisconnect", client, <<>>, <<>>, <<>>)

\* emitTaskEvent as the gateway delivers it to the manager's room.
deliverTaskEvent(managerId, action, isIncrement) ==
  /\ LET event == emitTaskEvent(managerId, action, isIncrement)
     IN wire' = gatewayCall("emitTaskEvent", 0, emitterLog, event.room,
                            delivery(toRoom(event.room)))
  /\ UNCHANGED <<connectedClients, sockets>>

\* emitLoginEvent: a broadcast to the namespace.
emitLoginEvent(userId) ==
  /\ wire' = gatewayCall("emitLoginEvent", 0, emitterLog, <<>>, delivery(toAll))
  /\ UNCHANGED <<connectedClients, sockets>>

\* The gateway takes the next event.
settle ==
  /\ ~quiet
  /\ wire' = NoCall
  /\ UNCHANGED <<users, tasks, nextId, last, userUpdates, connectedClients, sockets,
                 serverClosing, overlap>>

\* ------------------------------------------------------------------ overlapping updates
\* update awaits findById, then findByIdAndUpdate: a second call can read the
\* task between the two. A call that has read holds the task as it read it.
MaxInflight == 2
MaxBegun == 3
Calls == 1 .. MaxInflight
NoRequest == [id |-> 0, dto |-> Absent, actor |-> Absent, task |-> Absent]
Managers == {"m1", "m2"}
StatusCounters == {"TASK_IN_PROGRESS", "TASK_COMPLETED"}

noneInflight ==
  /\ inflight = [c \in Calls |-> NoRequest]
  /\ sums = [m \in Managers |-> [a \in StatusCounters |-> 0]]
  /\ begun = 0

\* The deltas a sequence of events carries for one counter of one room.
RECURSIVE roomDelta(_, _, _)
roomDelta(events, room, action) ==
  IF events = <<>> THEN 0
  ELSE (IF events[1].room # room \/ events[1].action # action THEN 0
        ELSE IF events[1].inc THEN 1 ELSE -1)
       + roomDelta(Tail(events), room, action)

\* The sums after the events of one call have been sent.
tally(events) ==
  [m \in Managers |->
     [a \in StatusCounters |-> sums[m][a] + roomDelta(events, managerRoom(m), a)]]

\* update up to its last check: the user and the task are read, the permission,
\* the transition and the assignee are checked against the task as read.
updateRead(c, id, dto, userId) ==
  LET outcome == updateOutcome(id, dto, userId)
  IN /\ inflight[c] = NoRequest
     /\ begun < MaxBegun
     /\ begun' = begun + 1
     /\ IF outcome = Ok
          THEN /\ inflight' = [inflight EXCEPT
                                 ![c] = [id |-> id, dto |-> dto, actor |-> userId,
                                         task |-> tasks[id]]]
               /\ UNCHANGED last
          ELSE /\ UNCHANGED inflight
               /\ last' = [op |-> "update", actor |-> userId, id |-> id,
                           dto |-> dto, result |-> outcome, emitted |-> <<>>,
                           before |-> tasks]
     /\ UNCHANGED <<users, tasks, nextId, userUpdates, sums>>

\* update from findByIdAndUpdate on: the payload is written over the task as
\* stored now, the events are computed from the status and due date read.
updateWrite(c) ==
  LET call == inflight[c]
      updatedTask == applyUpdateData(tasks[call.id], call.dto)
      events == updateEvents(call.task, updatedTask, call.dto)
  IN /\ call # NoRequest
     /\ tasks' = [tasks EXCEPT ![call.id] = updatedTask]
     /\ last' = [op |-> "update", actor |-> call.actor, id |-> call.id,
                 dto |-> call.dto, result |-> afterEmits(events),
                 emitted |-> events, before |-> tasks]
     /\ sums' = tally(events)
     /\ inflight' = [inflight EXCEPT ![c] = NoRequest]
     /\ UNCHANGED <<users, nextId, userUpdates, begun>>

\* ------------------------------------------------------------------ respond
\* The outcome of the call reaches its caller; the server takes the next call.
respond ==
  /\ ~idle
  /\ last' = NoOp
  /\ UNCHANGED <<users, tasks, nextId, userUpdates>>
  /\ UNCHANGED <<gateway, overlap>>

Init ==
  /\ users = [u \in UserIds |-> [role |-> InitialRole[u], isActive |-> TRUE]]
  /\ tasks = <<>>
  /\ nextId = 1
  /\ last = NoOp
  /\ userUpdates = 0
  /\ connectedClients = <<>>
  /\ sockets = [c \in ClientIds |-> NoSocket]
  /\ wire = NoCall
  /\ serverClosing = FALSE
  /\ noneInflight

\* One call is handled to completion before the next is taken.
CreateTask == idle /\ UNCHANGED <<gateway, overlap>> /\ \E a \in ActorIds, d \in CreateTaskDto : createTask(d, a)
Update == idle /\ UNCHANGED <<gateway, overlap>> /\ \E a \in ActorIds, i \in TaskIds, d \in UpdateTaskDto : update(i, d, a)
Remove == idle /\ UNCHANGED <<gateway, overlap>> /\ \E a \in ActorIds, i \in TaskIds : remove(i, a)
DeleteTaskAsManager ==
  idle /\ UNCHANGED <<gateway, overlap>> /\ \E a \in ActorIds, i \in TaskIds \cup {InvalidTaskId} : deleteTaskAsManager(i, a)

Next ==
  \/ CreateTask
  \/ Update
  \/ Remove
  \/ DeleteTaskAsManager
  \/ respond

Spec == Init /\ [][Next]_vars

\* ------------------------------------------------------------------ tasks and roles
\* The task handlers next to role changes, on payloads that carry no priority
\* or due date and, for update, either a status or an assignee.
CreatePlainDto == {d \in CreateTaskDto : d.priority = Absent /\ d.dueDate = Absent}
UpdateOwnerDto ==
  {d \in UpdateTaskDto : presentFields(d) \in {{"assignedTo"}, {"status"}}}

CreatePlain == idle /\ UNCHANGED <<gateway, overlap>> /\ \E a \in ActorIds, d \in CreatePlainDto : createTask(d, a)
UpdateOwner == idle /\ UNCHANGED <<gateway, overlap>> /\ \E a \in ActorIds, i \in TaskIds, d \in UpdateOwnerDto : update(i, d, a)
AdminUpdateUser ==
  idle /\ UNCHANGED <<gateway, overlap>> /\ \E a \in UserIds, u \in ActorIds, d \in AdminUpdateUserDto : adminUpdateUser(u, d, a)

NextUsers ==
  \/ CreatePlain
  \/ UpdateOwner
  \/ AdminUpdateUser
  \/ respond

SpecUsers == Init /\ [][NextUsers]_vars

\* ------------------------------------------------------------------ connections
\* The gateway alone: sockets connect, are handled again, close, and events
\* are sent to rooms and to the namespace.
store == <<users, tasks, nextId, last, userUpdates>>
Connect ==
  quiet /\ UNCHANGED <<store, overlap, serverClosing>>
  /\ \E c \in ClientIds, t \in Tokens :
       sockets[c].status = "none" /\ handleConnection(c, t)
Reconnect ==
  quiet /\ UNCHANGED <<store, overlap, serverClosing>>
  /\ \E c \in ClientIds :
       sockets[c].status = "open" /\ handleConnection(c, sockets[c].token)
Disconnect ==
  quiet /\ UNCHANGED <<store, overlap, serverClosing>>
  /\ \E c \in ClientIds : sockets[c].status = "open" /\ handleDisconnect(c)
EmitTaskEvent ==
  quiet /\ UNCHANGED <<store, overlap, serverClosing>>
  /\ \E m \in {"m1", "m2"} : deliverTaskEvent(m, "TASK_CREATED", TRUE)
EmitLoginEvent ==
  quiet /\ UNCHANGED <<store, overlap, serverClosing>> /\ \E u \in TokenSubjects : emitLoginEvent(u)

NextGateway ==
  \/ Connect
  \/ Reconnect
  \/ Disconnect
  \/ EmitTaskEvent
  \/ EmitLoginEvent
  \/ settle

SpecGateway == Init /\ [][NextGateway]_vars

\* ------------------------------------------------------------------ emit failures
\* The task handlers and a broadcast while the socket server may start to
\* close, after which server.emit throws.
ServerClosing ==
  /\ idle /\ quiet /\ ~serverClosing
  /\ serverClosing' = TRUE
  /\ UNCHANGED <<store, overlap, connectedClients, sockets, wire>>

NextEmit ==
  \/ CreatePlain
  \/ UpdateOwner
  \/ EmitLoginEvent
  \/ ServerClosing
  \/ respond
  \/ settle

SpecEmit == Init /\ [][NextEmit]_vars

\* ------------------------------------------------------------------ overlap
\* Project tasks are created and their status is updated by calls that may
\* overlap; nothing is deleted.
CreateProjectDto ==
  {d \in CreatePlainDto : d.isPersonal = "false" /\ d.assignedTo = "u1"}
UpdateStatusDto == {d \in UpdateTaskDto : presentFields(d) = {"status"}}

CreateProject ==
  idle /\ UNCHANGED <<gateway, inflight, begun>>
  /\ \E a \in Managers, d \in CreateProjectDto : createTask(d, a)
  /\ sums' = tally(last'.emitted)
UpdateRead ==
  idle /\ UNCHANGED gateway
  /\ \E c \in Calls, a \in {"m1", "m2", "u1"}, i \in TaskIds, d \in UpdateStatusDto :
       updateRead(c, i, d, a)
UpdateWrite ==
  idle /\ UNCHANGED gateway /\ \E c \in Calls : updateWrite(c)

NextOverlap ==
  \/ CreateProject
  \/ UpdateRead
  \/ UpdateWrite
  \/ respond

SpecOverlap == Init /\ [][NextOverlap]_vars

\* ------------------------------------------------------------------ queries
\* The read handlers next to the handlers that change the task store.
FindOne ==
  idle /\ UNCHANGED <<gateway, overlap>>
  /\ \E a \in ActorIds, i \in TaskIds, refIsId \in BOOLEAN : findOne(i, a, refIsId)
FindAll ==
  idle /\ UNCHANGED <<gateway, overlap>> /\ \E a \in ActorIds, q \in QueryTasksDto : findAll(q, a)

NextQueries ==
  \/ CreatePlain
  \/ UpdateOwner
  \/ Remove
  \/ FindOne
  \/ FindAll
  \/ respond

SpecQueries == Init /\ [][NextQueries]_vars

\* ------------------------------------------------------------------ accounts
\* The account handlers of AuthService, on a store that may hold a second
\* administrator and an inactive member.
InitAccounts ==
  /\ \E r \in {"MANAGER", "ADMIN"}, active \in BOOLEAN :
       users = [u \in UserIds |->
                  [role |-> IF u = "m2" THEN r ELSE InitialRole[u],
                   isActive |-> IF u = "u2" THEN active ELSE TRUE]]
  /\ tasks = <<>>
  /\ nextId = 1
  /\ last = NoOp
  /\ userUpdates = 0
  /\ connectedClients = <<>>
  /\ sockets = [c \in ClientIds |-> NoSocket]
  /\ wire = NoCall
  /\ serverClosing = FALSE
  /\ noneInflight

InviteUser ==
  idle /\ UNCHANGED <<gateway, overlap>>
  /\ \E a \in UserIds, d \in InviteUserDto, f \in BOOLEAN : inviteUser(d, a, f)
ManagerUpdateUser ==
  idle /\ UNCHANGED <<gateway, overlap>>
  /\ \E a \in {u \in DOMAIN users : users[u].role = "MANAGER"}, u \in ActorIds,
        d \in ManagerUpdateUserDto : managerUpdateUser(u, d, a)
AdminDeleteUser ==
  idle /\ UNCHANGED <<gateway, overlap>> /\ \E a \in UserIds, u \in ActorIds : adminDeleteUser(u, a)

NextAccounts ==
  \/ InviteUser
  \/ AdminUpdateUser
  \/ ManagerUpdateUser
  \/ AdminDeleteUser
  \/ respond

SpecAccounts == InitAccounts /\ [][NextAccounts]_vars
\* ------------------------------------------------------------------ manager dashboard
\* A due date that lies before the time of the query.
isPast(dueDate) == dueDate \in Dates

\* taskModel.countDocuments: how many stored tasks match the filter.
countDocuments(docs, filter) ==
  Cardinality({i \in DOMAIN docs :
                 \A f \in DOMAIN filter : docs[i][f] \in filter[f]})

\* ManagerDashboardService.getManagerStats
managerStats(docs, managerId) ==
  [totalTasks |-> countDocuments(docs, [createdBy |-> {managerId}]),
   overdueTasks |-> countDocuments(docs, [createdBy |-> {managerId},
                                          dueDate |-> {d \in Dates : isPast(d)},
                                          status |-> TaskStatus \ {"COMPLETED"}]),
   completedTasks |-> countDocuments(docs, [createdBy |-> {managerId},
                                            status |-> {"COMPLETED"}]),
   inProgressTasks |-> countDocuments(docs, [createdBy |-> {managerId},
                                             status |-> {"IN_PROGRESS"}])]
getManagerStats(managerId) == managerStats(tasks, managerId)

\* ManagerDashboardService.getManagerActivity: the recent tasks that have a
\* performer, as activity items.
managerActivity(docs, managerId) ==
  {[taskId |-> i, taskTitle |-> docs[i].title, status |-> docs[i].status,
    priority |-> docs[i].priority, dueDate |-> docs[i].dueDate,
    performedBy |-> docs[i].createdBy] :
     i \in {j \in DOMAIN docs : docs[j].createdBy \in DOMAIN users}}
getManagerActivity(managerId) == managerActivity(tasks, managerId)

\* ================================================================== claims
\* The task the handled call named, as the call found it and as it left it.
named == last.id \in DOMAIN last.before
beforeTask == last.before[last.id]
kept == last.id \in DOMAIN tasks
actorRole == findUser(last.actor).role

\* The transition table of the specification, as pairs.
TableEdges ==
  {<<"TODO", "IN_PROGRESS">>, <<"TODO", "CANCELLED">>,
   <<"IN_PROGRESS", "REVIEW">>, <<"IN_PROGRESS", "CANCELLED">>,
   <<"IN_PROGRESS", "COMPLETED">>,
   <<"REVIEW", "COMPLETED">>, <<"REVIEW", "IN_PROGRESS">>, <<"REVIEW", "CANCELLED">>,
   <<"COMPLETED", "IN_PROGRESS">>, <<"COMPLETED", "REVIEW">>,
   <<"CANCELLED", "TODO">>, <<"CANCELLED", "IN_PROGRESS">>}

\* C1: with calls handled one after another, whenever a call leaves a task with
\* a stored status other than the one it found, the pair (status before, status
\* after) is an edge of the transition table, whoever the actor is and whether
\* the task is personal or a project task.
C1_AcceptedTransitionsInTable ==
  \A i \in DOMAIN last.before \cap DOMAIN tasks :
    last.before[i].status # tasks[i].status
      => <<last.before[i].status, tasks[i].status>> \in TableEdges

\* C1 witness: an accepted update changed the status of a personal task.
C1_Witness ==
  /\ last.op = "update" /\ last.result = Ok /\ named /\ kept
  /\ beforeTask.isPersonal
  /\ beforeTask.status # tasks[last.id].status

\* C2: a MEMBER's update of a project task whose payload carries a field other
\* than status is rejected as a whole with Forbidden and changes no stored
\* field.
C2_MemberStatusOnly ==
  (/\ last.op = "update" /\ named
   /\ ~beforeTask.isPersonal
   /\ actorRole = "MEMBER"
   /\ presentFields(last.dto) \ {"status"} # {})
    => (last.result.kind = "Forbidden" /\ tasks = last.before)

C5_AssignmentInvariant ==
  \A i \in DOMAIN tasks :
    IF tasks[i].isPersonal
      THEN tasks[i].assignedTo = tasks[i].createdBy
           /\ tasks[i].assignedBy = tasks[i].createdBy
      ELSE findUser(tasks[i].assignedTo).role = "MEMBER"

\* C6: createTask stores a task exactly when the payload is personal and the
\* actor a MEMBER, or it is not personal, the actor a MANAGER and assignedTo a
\* stored MEMBER; a stored actor of the wrong role gets Forbidden, a right
\* actor with a missing or non-MEMBER assignee gets the assignment error, and
\* a failing call stores and emits nothing.
C6_CreateContract ==
  last.op = "createTask" =>
    LET personal == last.dto.isPersonal = "true"
        rightRole == actorRole = (IF personal THEN "MEMBER" ELSE "MANAGER")
        goodAssignee == findUser(last.dto.assignedTo).role = "MEMBER"
        allowed == rightRole /\ (personal \/ goodAssignee)
    IN /\ (last.result = Ok) <=> allowed
       /\ allowed => /\ kept /\ ~named
                     /\ tasks[last.id].isPersonal = personal
                     /\ tasks[last.id].createdBy = last.actor
                     /\ \A i \in DOMAIN last.before : tasks[i] = last.before[i]
       /\ ~allowed => tasks = last.before /\ last.emitted = <<>>
       /\ (actorRole \in UserRole /\ ~rightRole) => last.result.kind = "Forbidden"
       /\ (rightRole /\ ~personal /\ ~goodAssignee) => last.result.kind = "BadRequest"

\* C6 witness: a MANAGER's project task assigned to another manager was
\* refused.
C6_Witness ==
  /\ last.op = "createTask"
  /\ actorRole = "MANAGER"
  /\ last.dto.isPersonal # "true"
  /\ last.dto.assignedTo = "m2"
  /\ last.result.kind = "BadRequest"

\* C7: update, remove and deleteTaskAsManager called on a personal task by
\* anyone but its creator leave the task stored and unchanged, whatever the
\* caller's role.
C7_PersonalOnlyByCreator ==
  (/\ last.op \in {"update", "remove", "deleteTaskAsManager"}
   /\ named
   /\ beforeTask.isPersonal
   /\ last.actor # beforeTask.createdBy)
    => tasks = last.before

\* C8: remove and deleteTaskAsManager take a project task out of the store
\* only for the MANAGER who created it.
C8_ProjectDeletedOnlyByCreatingManager ==
  (/\ last.op \in {"remove", "deleteTaskAsManager"}
   /\ named
   /\ ~beforeTask.isPersonal
   /\ ~kept)
    => (actorRole = "MANAGER" /\ beforeTask.createdBy = last.actor)

\* C9: an update of a project task succeeds only for the MANAGER who created
\* it or a MEMBER who is its assignee or creator; every other caller gets
\* Forbidden and the task is unchanged.
C9_UpdateFailClosed ==
  (last.op = "update" /\ named /\ ~beforeTask.isPersonal /\ actorRole \in UserRole)
    => LET permitted ==
             \/ actorRole = "MANAGER" /\ beforeTask.createdBy = last.actor
             \/ actorRole = "MEMBER" /\ (beforeTask.assignedTo = last.actor
                                         \/ beforeTask.createdBy = last.actor)
       IN ~permitted => (last.result.kind = "Forbidden" /\ tasks = last.before)

\* The valid next statuses of the specification's table.
ValidNext(status) == {t \in TaskStatus : <<status, t>> \in TableEdges}
listed(list) == {list[k] : k \in 1 .. Len(list)}
badStatusRequest ==
  /\ last.op = "update" /\ named
  /\ last.dto.status # Absent
  /\ last.dto.status # beforeTask.status
  /\ last.dto.status \notin ValidNext(beforeTask.status)

\* C10 as stated: every update that requests a status outside the valid-next
\* set of the current one fails with the error that names the current status
\* and lists its valid next statuses, and the task is unchanged.
C10_InvalidTransitionAlways ==
  badStatusRequest
    => /\ last.result.kind = "BadRequest"
       /\ "validNext" \in DOMAIN last.result
       /\ last.result.from = beforeTask.status
       /\ listed(last.result.validNext) = ValidNext(beforeTask.status)
       /\ tasks = last.before

\* C10 amended: the same, for a stored caller who passes update's permission
\* check; no update with such a request changes any field of the task.
C10_InvalidTransitionWhenPermitted ==
  badStatusRequest
    => /\ tasks = last.before
       /\ last.result # Ok
       /\ (actorRole \in UserRole
           /\ updatePermission(beforeTask, findUser(last.actor), last.actor) = Ok)
            => /\ last.result.kind = "BadRequest"
               /\ "validNext" \in DOMAIN last.result
               /\ last.result.from = beforeTask.status
               /\ listed(last.result.validNext) = ValidNext(beforeTask.status)
               /\ Len(last.result.validNext) = Cardinality(ValidNext(beforeTask.status))
               /\ (beforeTask.status = "TODO"
                     => last.result.validNext = <<"IN_PROGRESS", "CANCELLED">>)

\* C10 witness: the creator of a personal TODO task asked for REVIEW together
\* with another field and got the error.
C10_Witness ==
  /\ badStatusRequest
  /\ beforeTask.isPersonal /\ beforeTask.createdBy = last.actor
  /\ beforeTask.status = "TODO" /\ last.dto.status = "REVIEW"
  /\ presentFields(last.dto) # {"status"}
  /\ last.result.kind = "BadRequest"

\* ------------------------------------------------------------------ gateway claims
\* The connection the handled gateway call was for, as the call found it.
wireRegistryBefore == wire.before[1]
wireSocketBefore == wire.before[2][wire.client]
roomSet(c) == {sockets[c].rooms[k] : k \in 1 .. Len(sockets[c].rooms)}
genuine(token) == token # NoToken /\ token.valid

\* C11: a registered connection is in user-<id> and role-<role>, in
\* manager-<id> as well when its role is MANAGER, and in no other room.
C11_ManagerRoomJoined ==
  \A c \in DOMAIN connectedClients :
    roomSet(c) =
      {<<"user", connectedClients[c].id>>, <<"role", connectedClients[c].role>>}
        \cup (IF connectedClients[c].role = "MANAGER"
                THEN {managerRoom(connectedClients[c].id)} ELSE {})

\* C12: a handshake with no token or with a token that fails verification
\* leaves the connection out of the registry and of every room, and the same
\* handleConnection call sends it an error and closes it; such a connection is
\* never open afterwards.
C12_UnauthenticatedRefused ==
  /\ \A c \in ClientIds :
       ~genuine(sockets[c].token) =>
         /\ c \notin DOMAIN connectedClients
         /\ sockets[c].rooms = <<>>
         /\ sockets[c].status \in {"none", "closed"}
  /\ (wire.op = "handleConnection" /\ ~genuine(sockets[wire.client].token)) =>
       /\ sockets[wire.client].status = "closed"
       /\ wire.sent[1] = "error"
       /\ wire.sent[2] = (IF sockets[wire.client].token = NoToken
                            THEN "AUTH_TOKEN_MISSING" ELSE "AUTH_FAILED")
       /\ connectedClients = wireRegistryBefore
       /\ \A c \in ClientIds \ {wire.client} : sockets[c] = wire.before[2][c]

\* C12 witness: a connection presenting a token that fails verification was
\* refused while another connection is registered.
C12_Witness ==
  /\ wire.op = "handleConnection"
  /\ sockets[wire.client].token # NoToken
  /\ ~sockets[wire.client].token.valid
  /\ sockets[wire.client].status = "closed"
  /\ DOMAIN connectedClients # {}

\* C13: after handleDisconnect(c), c is in no registry entry and in no room,
\* every other connection keeps its entry and its rooms, and an event sent to
\* a room or to the namespace reaches only open, registered connections.
C13_DisconnectUnregisters ==
  /\ wire.op = "handleDisconnect" =>
       /\ \A e \in getConnectedClients : e.id # wire.client
       /\ sockets[wire.client].rooms = <<>>
       /\ \A c \in ClientIds \ {wire.client} :
            /\ sockets[c] = wire.before[2][c]
            /\ (c \in DOMAIN connectedClients) <=> (c \in DOMAIN wireRegistryBefore)
            /\ c \in DOMAIN connectedClients => connectedClients[c] = wireRegistryBefore[c]
  /\ wire.op \in {"emitTaskEvent", "emitLoginEvent"} =>
       \A c \in ClientIds :
         wire.delivered[c] > 0 =>
           (sockets[c].status = "open" /\ \E e \in getConnectedClients : e.id = c)
  /\ \A c \in ClientIds :
       sockets[c].status = "closed" => \A e \in getConnectedClients : e.id # c

\* C13 witness: a registered connection was disconnected while another one
\* stays registered.
C13_Witness ==
  /\ wire.op = "handleDisconnect"
  /\ wire.client \in DOMAIN wireRegistryBefore
  /\ wireSocketBefore.rooms # <<>>
  /\ DOMAIN connectedClients # {}

\* C14: handleConnection run again for a registered connection with the same
\* identity leaves the registry and every room membership as the first run
\* left them, and an event sent to a room reaches a connection at most once.
C14_RegisterIdempotent ==
  /\ (wire.op = "handleConnection" /\ wireSocketBefore.status = "open") =>
       /\ connectedClients = wireRegistryBefore
       /\ sockets = wire.before[2]
  /\ \A c \in ClientIds :
       \A k, l \in 1 .. Len(sockets[c].rooms) :
         sockets[c].rooms[k] = sockets[c].rooms[l] => k = l
  /\ wire.op \in {"emitTaskEvent", "emitLoginEvent"} =>
       \A c \in ClientIds : wire.delivered[c] <= 1

\* C14 witness: handleConnection ran a second time for a registered
\* connection.
C14_Witness ==
  /\ wire.op = "handleConnection"
  /\ wireSocketBefore.status = "open"
  /\ wire.client \in DOMAIN wireRegistryBefore
  /\ wire.sent = <<"connected">>

\* The registry state of a connection.
phase(registry, socks, c) ==
  IF socks[c].status = "closed" THEN "Disconnected"
  ELSE IF c \in DOMAIN registry THEN "Authenticated"
  ELSE "Unauthenticated"
phaseRank == [Unauthenticated |-> 0, Authenticated |-> 1, Disconnected |-> 2]

\* C15: a connection's registry state never moves backwards through
\* Unauthenticated, Authenticated, Disconnected; it enters the registry only
\* from Unauthenticated with a verified token, is in the registry exactly
\* while it is open, and once Disconnected stays so.
C15_ConnectionLifecycle ==
  [][\A c \in ClientIds :
       LET from == phase(connectedClients, sockets, c)
           to == phase(connectedClients', sockets', c)
       IN /\ phaseRank[from] <= phaseRank[to]
          /\ (from = "Unauthenticated" /\ to = "Authenticated") => genuine(sockets'[c].token)
          /\ (c \in DOMAIN connectedClients') <=> (sockets'[c].status = "open")
          /\ from = "Disconnected" =>
               (to = "Disconnected" /\ sockets'[c] = sockets[c])]_vars

\* C15 witness: a connection that was registered is Disconnected and an event
\* has just been sent to the namespace.
C15_Witness ==
  /\ wire.op = "emitLoginEvent"
  /\ \E c \in ClientIds :
       /\ phase(connectedClients, sockets, c) = "Disconnected"
       /\ genuine(sockets[c].token)
       /\ wire.delivered[c] = 0
  /\ \E c \in ClientIds : wire.delivered[c] = 1

\* ------------------------------------------------------------------ counter claims
\* The sum of the deltas a sequence of events carries for one counter.
RECURSIVE delta(_, _)
delta(events, action) ==
  IF events = <<>> THEN 0
  ELSE (IF events[1].action # action THEN 0 ELSE IF events[1].inc THEN 1 ELSE -1)
       + delta(Tail(events), action)
indicator(b) == IF b THEN 1 ELSE 0
acceptedStatusChange ==
  /\ last.op = "update" /\ last.result = Ok /\ named
  /\ ~beforeTask.isPersonal
  /\ last.dto.status # Absent
  /\ last.dto.status # beforeTask.status

\* C16: an accepted status change old -> new of a project task emits deltas
\* that sum to [new = COMPLETED] - [old = COMPLETED] for TASK_COMPLETED and to
\* [new = IN_PROGRESS] - [old = IN_PROGRESS] for TASK_IN_PROGRESS, all to the
\* room of the task's creator.
C16_StatusCounterDeltas ==
  acceptedStatusChange =>
    /\ delta(last.emitted, "TASK_COMPLETED") =
         indicator(last.dto.status = "COMPLETED") - indicator(beforeTask.status = "COMPLETED")
    /\ delta(last.emitted, "TASK_IN_PROGRESS") =
         indicator(last.dto.status = "IN_PROGRESS") - indicator(beforeTask.status = "IN_PROGRESS")
    /\ \A k \in 1 .. Len(last.emitted) :
         last.emitted[k].room = managerRoom(beforeTask.createdBy)

\* A successful deletion of a project task.
projectTaskDeleted ==
  /\ last.op \in {"remove", "deleteTaskAsManager"}
  /\ named /\ ~kept
  /\ ~beforeTask.isPersonal

\* C17: every successful remove or deleteTaskAsManager of a project task
\* emits a TASK_DELETED decrement to the room of the manager who created it.
C17_DeletionEmitsDecrement ==
  projectTaskDeleted =>
    \E k \in 1 .. Len(last.emitted) :
      /\ last.emitted[k].action = "TASK_DELETED"
      /\ ~last.emitted[k].inc
      /\ last.emitted[k].room = managerRoom(beforeTask.createdBy)

\* The history array of the task schema that belongs to a field.
historyOf == [status |-> "statusHistory", priority |-> "priorityHistory",
              dueDate |-> "dueDateHistory", assignedTo |-> "assignmentHistory"]

\* C18: an accepted update appends one history entry for each of status,
\* priority, due date and assignee that it changes, naming the field, the old
\* value, the new value and the actor, and keeps the earlier entries.
C18_HistoryAppended ==
  (last.op = "update" /\ last.result = Ok /\ named) =>
    \A f \in DOMAIN historyOf :
      LET old == beforeTask[historyOf[f]]
          new == tasks[last.id][historyOf[f]]
      IN IF tasks[last.id][f] = beforeTask[f] THEN new = old
         ELSE /\ Len(new) = Len(old) + 1
              /\ SubSeq(new, 1, Len(old)) = old
              /\ new[Len(new)].field = f
              /\ new[Len(new)].oldValue = beforeTask[f]
              /\ new[Len(new)].newValue = tasks[last.id][f]
              /\ new[Len(new)].updatedBy = last.actor

\* ------------------------------------------------------------------ dashboard claims
\* The task call just handled touched no task created by the manager.
foreignTo(managerId) ==
  /\ last.op \in {"createTask", "update", "remove", "deleteTaskAsManager"}
  /\ named => beforeTask.createdBy # managerId
  /\ kept => tasks[last.id].createdBy # managerId

\* C19: the counts and the activity list returned to a manager are computed
\* from the tasks that manager created only: a call on any other task changes
\* neither, and every activity item is a task of the manager.
C19_ManagerScoped ==
  \A m \in {"m1", "m2"} :
    /\ foreignTo(m) =>
         /\ getManagerStats(m) = managerStats(last.before, m)
         /\ getManagerActivity(m) = managerActivity(last.before, m)
    /\ \A e \in getManagerActivity(m) : tasks[e.taskId].createdBy = m

targetBefore == last.usersBefore[last.target]

\* C21: once inviteUser has saved the new user, it returns success to its
\* caller whether or not sending the invitation e-mail fails.
C21_SinkFailureNotSurfaced ==
  (/\ last.op = "inviteUser"
   /\ last.target \notin DOMAIN last.usersBefore
   /\ last.target \in DOMAIN users)
    => last.result = Ok

\* ------------------------------------------------------------------ query claims
\* What findOne, update and remove answer a stored user about a task id that
\* names no task.
missingTaskOutcome == NotFound("Task not found")

\* C22: an actor refused access to an existing task by findOne, update or
\* remove gets the outcome the same call has for a task that does not exist.
C22_ExistenceNotRevealed ==
  (/\ last.op \in {"findOne", "update", "remove"}
   /\ named
   /\ actorRole \in UserRole
   /\ last.result.kind = "Forbidden")
    => last.result = missingTaskOutcome

\* The kinds of outcome that reach the caller as an error.
ErrorKinds == {"NotFound", "Forbidden", "BadRequest", "InternalError"}

\* C23: a task operation that was denied or failed ends with an error of its
\* own kind, never with a normal return value; a deleteTaskAsManager call that
\* did not delete signals its refusal as an error.
C23_RefusalIsError ==
  (/\ last.op \in {"createTask", "update", "remove", "deleteTaskAsManager"}
   /\ last.result # Ok
   /\ ~(last.result.kind = "returned" /\ last.result.success))
    => last.result.kind \in ErrorKinds

\* ------------------------------------------------------------------ overlap claims
\* C24: every status change an accepted update stores, from the value stored
\* just before its write to the value it writes, is an edge of the transition
\* table, also when two accepted updates of one task overlap.
C24_StoredChangeIsEdge ==
  (/\ last.op = "update" /\ last.result = Ok /\ named
   /\ tasks[last.id].status # beforeTask.status)
    => includes(validTransitions[beforeTask.status], tasks[last.id].status)

\* The number of project tasks of a manager stored in a status.
storedIn(m, status) ==
  Cardinality({i \in DOMAIN tasks :
                 /\ ~tasks[i].isPersonal
                 /\ tasks[i].createdBy = m
                 /\ tasks[i].status = status})

\* C25: once every accepted create and update has written, the deltas sent to
\* the room of each manager sum to the number of that manager's project tasks
\* stored IN_PROGRESS for TASK_IN_PROGRESS and COMPLETED for TASK_COMPLETED.
C25_SumsMatchStore ==
  (\A c \in Calls : inflight[c] = NoRequest) =>
    \A m \in Managers :
      /\ sums[m]["TASK_IN_PROGRESS"] = storedIn(m, "IN_PROGRESS")
      /\ sums[m]["TASK_COMPLETED"] = storedIn(m, "COMPLETED")

\* ------------------------------------------------------------------ emit order claims
\* What an emitted counter delta says about the task of the call, read from
\* the store as it is when the delta is emitted.
reflected(e) ==
  /\ last.id \in DOMAIN tasks
  /\ ~tasks[last.id].isPersonal
  /\ IF e.action = "TASK_CREATED" THEN e.inc /\ ~named
     ELSE IF e.action = "TASK_HIGH_PRIORITY" THEN e.inc /\ tasks[last.id].priority = "HIGH"
     ELSE IF e.action = "TASK_DUE_DATE" THEN e.inc <=> tasks[last.id].dueDate # Null
     ELSE IF e.action = "TASK_COMPLETED" THEN e.inc <=> tasks[last.id].status = "COMPLETED"
     ELSE IF e.action = "TASK_IN_PROGRESS" THEN e.inc <=> tasks[last.id].status = "IN_PROGRESS"
     ELSE FALSE

\* C26: createTask, update and remove emit only once their write is stored: a
\* rejected call emits nothing and stores nothing, and every delta emitted
\* reports a change the store already holds.
C26_EmitAfterWrite ==
  last.op \in {"createTask", "update", "remove"} =>
    /\ last.result # Ok => (last.emitted = <<>> /\ tasks = last.before)
    /\ \A k \in 1 .. Len(last.emitted) : reflected(last.emitted[k])
C26_Witness ==
  /\ last.op = "update" /\ last.result = Ok
  /\ tasks[last.id].status = "COMPLETED"
  /\ beforeTask.status = "IN_PROGRESS"
  /\ Len(last.emitted) >= 2

\* ------------------------------------------------------------------ visibility claims
\* A query that carries no parameter.
NoQuery == [status |-> Absent, assignedTo |-> Absent, page |-> 0, limit |-> 0]

\* C27: findOne returns a task only to an actor whose findAll lists it: a
\* personal task to its creator, a project task to the MEMBER it is assigned
\* to or to the MANAGER who created it.
C27_FindOneWithinFindAll ==
  (last.op = "findOne" /\ last.result = Ok) =>
    /\ findAllFilter(tasks[last.id], NoQuery, findUser(last.actor), last.actor)
    /\ tasks[last.id].isPersonal => tasks[last.id].createdBy = last.actor

\* C28: findAll returns to a MEMBER only tasks assigned to that member and to
\* a MANAGER only tasks that manager created, whatever the query carries; a
\* personal task of a member is never returned to a manager.
C28_FindAllScoped ==
  (last.op = "findAll" /\ last.result = Ok) =>
    \A i \in last.returned :
      /\ actorRole = "MEMBER" => tasks[i].assignedTo = last.actor
      /\ actorRole = "MANAGER" => tasks[i].createdBy = last.actor
      /\ (tasks[i].isPersonal /\ findUser(tasks[i].createdBy).role = "MEMBER")
           => actorRole # "MANAGER"
C28_Witness ==
  /\ last.op = "findAll" /\ last.result = Ok
  /\ actorRole = "MEMBER"
  /\ last.dto.assignedTo \notin {Absent, last.actor}
  /\ last.returned # {}

\* ------------------------------------------------------------------ role claims
roleRank == [MEMBER |-> 0, MANAGER |-> 1, ADMIN |-> 2]

\* C29: after an adminUpdateUser call the role of the target user is the
\* same as or higher than before, in the order MEMBER < MANAGER < ADMIN.
C29_RoleNeverLowered ==
  (/\ last.op = "adminUpdateUser"
   /\ last.target \in DOMAIN last.usersBefore
   /\ last.target \in DOMAIN users)
    => roleRank[users[last.target].role] >= roleRank[targetBefore.role]

\* A stored user that is an active ADMIN in the given user store.
activeAdmin(stored, u) ==
  u \in DOMAIN stored /\ stored[u].role = "ADMIN" /\ stored[u].isActive

\* C30: no call deactivates or deletes a user whose role is ADMIN: every
\* active ADMIN is stored and active after the call, and adminUpdateUser,
\* managerUpdateUser and adminDeleteUser reject a request to deactivate or
\* delete it, the caller's own account included, leaving the users unchanged.
C30_AdminStaysActive ==
  [][\A u \in UserIds :
       activeAdmin(users, u) =>
         /\ u \in DOMAIN users' /\ users'[u].isActive
         /\ (/\ last'.op \in {"adminUpdateUser", "managerUpdateUser", "adminDeleteUser"}
             /\ last'.target = u
             /\ (last'.op = "adminDeleteUser" \/ last'.dto.isActive = "false"))
              => (last'.result # Ok /\ users' = users)]_vars
C30_Witness ==
  /\ last.op = "adminDeleteUser"
  /\ actorRole = "ADMIN"
  /\ activeAdmin(last.usersBefore, last.target)
  /\ last.target # last.actor
  /\ last.result.kind = "Forbidden"
  /\ users = last.usersBefore
====
